---- MODULE Spec2Model ----
(***************************************************************************)
(* Model of commands/translate.py: TranslateCommand.run and the five       *)
(* methods it calls.  One run of the command is one behaviour.  The ORM    *)
(* server, the context gatherer, the LLM client, the console and the       *)
(* filesystem are the environment: their answers are drawn from small sets *)
(* and every interaction is appended to the history variable calls.        *)
(*                                                                         *)
(* Python values: None / False are the empty tuple <<>>, a present value v *)
(* is <<v>>.  A filesystem path is the tuple of its components, a / b is   *)
(* Append(a, b).                                                           *)
(*                                                                         *)
(* completion (what llm.completion did), answer (what the user replied to  *)
(* console.confirm) and fs_at_start (the filesystem when run() was         *)
(* entered) record the environment's part of the run.                      *)
(***************************************************************************)
EXTENDS Integers, Sequences, FiniteSets, TLC

VARIABLES pc, result, database, fs, addons_path, addon_path,
          module_id, export_result, po_content, additional_addons_paths,
          context, messages, ai_translation, output_path,
          language_export_id, translation_action, translation_data,
          completion, answer, fs_at_start, server_records, calls, log

vars == <<pc, result, database, fs, addons_path, addon_path,
          module_id, export_result, po_content, additional_addons_paths,
          context, messages, ai_translation, output_path,
          language_export_id, translation_action, translation_data,
          completion, answer, fs_at_start, server_records, calls, log>>

----------------------------------------------------------------------------
(* Bounds of the environment *)

\* record identifiers the server hands out are 1..MaxId
MaxId == 1
\* distinct non-empty completions the LLM may return
NumTranslations == 2

Ids == 1 .. MaxId

None == <<>>
Some(v) == <<v>>

----------------------------------------------------------------------------
(* Command-line arguments (self.args) *)

lang == "fr_FR"
module_name == "sale"
path == <<"addons">>

----------------------------------------------------------------------------
(* Environment values *)

\* display names the export wizard may give the generated file
DisplayNames == {"fr.po", "sale.po"}

\* base64 payloads the wizard may return: two well-formed ones and one with
\* incorrect padding, which base64.b64decode rejects
B64Payloads == {"cG8x", "cG8y", "cG8"}

\* base64.b64decode(b64_content).decode("utf-8"): None stands for the
\* exception raised on a non-string (False) or undecodable argument
B64DecodeUtf8(data) ==
    IF data = None THEN None
    ELSE CASE data[1] = "cG8x" -> Some("po1")
           [] data[1] = "cG8y" -> Some("po2")
           [] OTHER            -> None

\* completions: "" is the empty completion
TranslationOf(i) == CASE i = 1 -> "tr1" [] i = 2 -> "tr2" [] i = 3 -> "tr3" [] OTHER -> "tr4"
Completions == {None, Some("")} \cup {Some(TranslationOf(i)) : i \in 1 .. NumTranslations}

\* what gather_po_context may return: None, an empty dict, a dict of hints
Contexts == {[kind |-> "None", items |-> {}],
             [kind |-> "dict", items |-> {}],
             [kind |-> "dict", items |-> {"term"}]}

\* json.dumps(context)
JsonDumps(ctx) == [json |-> ctx.items]

----------------------------------------------------------------------------
(* Filesystem *)

Absent == [kind |-> "absent"]
Dir == [kind |-> "dir"]
File(c) == [kind |-> "file", content |-> c]

Join(p, name) == Append(p, name)

module_dir == Join(path, module_name)
i18n_dir == Join(module_dir, "i18n")

Paths == {path, module_dir, i18n_dir}
           \cup {Join(path, f) : f \in DisplayNames}
           \cup {Join(i18n_dir, f) : f \in DisplayNames}

Parent(p) == SubSeq(p, 1, Len(p) - 1)

\* Path.exists / Path.is_dir
Exists(f, p) == f[p].kind # "absent"
IsDir(f, p) == f[p].kind = "dir"

\* a tree: below anything that is not a directory there is nothing; the
\* i18n entry of a module, when present, is a directory; the entries named
\* after an exported file, when present, are regular files
WellFormed(f) ==
    /\ \A p \in Paths \ {path} : Exists(f, p) => IsDir(f, Parent(p))
    /\ f[i18n_dir].kind \in {"absent", "dir"}
    /\ \A p \in Paths \ {path, module_dir, i18n_dir} : f[p] \in {Absent, File("old")}

InitialFilesystems ==
    {f \in [Paths -> {Absent, Dir, File("old")}] : WellFormed(f)}

----------------------------------------------------------------------------
(* Initial state: the command object is constructed, run() not yet entered *)

DatabaseTypes == {"LocalDatabase", "RemoteDatabase", "SaasDatabase"}

Init ==
    /\ pc = "get_module_id"
    /\ result = "running"
    /\ database \in DatabaseTypes
    /\ fs \in InitialFilesystems
    /\ addons_path \in BOOLEAN
    /\ addon_path \in BOOLEAN
    /\ addons_path => IsDir(fs, path)
    /\ addon_path => IsDir(fs, path)
    /\ module_id = None
    /\ export_result = None
    /\ po_content = None
    /\ additional_addons_paths = <<>>
    /\ context = [kind |-> "None", items |-> {}]
    /\ messages = <<>>
    /\ ai_translation = None
    /\ output_path = None
    /\ language_export_id = None
    /\ translation_action = None
    /\ translation_data = <<>>
    /\ completion = [called |-> FALSE, raises |-> FALSE, value |-> None]
    /\ answer = "not asked"
    /\ fs_at_start = fs
    /\ server_records = {}
    /\ calls = <<>>
    /\ log = <<>>

Msg(level, msg) == [level |-> level, msg |-> msg]

\* the run is over: by an early return, by an uncaught exception, or by
\* reaching the end of run()
Ends(how) == pc' = "done" /\ result' = how

----------------------------------------------------------------------------
(* Stage 1: resolve module *)

\* _get_module_id: the first match, or None (the value of logger.error)
FirstMatch(module_ids) ==
    IF module_ids = <<>> THEN None ELSE Some(module_ids[1])

\* the early return left out
ModuleMissing_never(id) == FALSE

\* run: "if not module_id: return"
ModuleMissing(id) == id = None \/ id = Some(0)

GetModuleId ==
    /\ pc = "get_module_id"
    /\ \E module_ids \in {<<>>} \cup {<<i>> : i \in Ids} :
         /\ calls' = calls \o <<"search">>
         /\ module_id' = FirstMatch(module_ids)
         /\ log' = log \o <<Msg("info", "Translating")>>
                       \o (IF module_ids = <<>>
                           THEN <<Msg("error", "Module not found")>> ELSE <<>>)
         /\ IF ModuleMissing(module_id')
            THEN Ends("returned")
            ELSE pc' = "export" /\ UNCHANGED result
    /\ UNCHANGED <<database, fs, addons_path, addon_path, export_result,
                   po_content, additional_addons_paths, context, messages,
                   ai_translation, output_path, language_export_id,
                   translation_action, translation_data, completion, answer,
                   fs_at_start, server_records>>

----------------------------------------------------------------------------
(* Stage 2: export *)

\* what base.language.export.create may hand back: an id, or nothing
CreateResults == {None} \cup {Some(i) : i \in Ids}

\* what act_getfile may hand back: nothing, an action without res_id, an
\* action window on the wizard record
ActionResults ==
    {None, Some([type |-> "ir.actions.act_window"])}
        \cup {Some([type |-> "ir.actions.act_window", res_id |-> i]) : i \in Ids}

\* what read may hand back: no record, or one record whose binary field is
\* False (unset) or a base64 payload
ReadResults ==
    {<<>>} \cup {<<[display_name |-> n, data |-> d]>> :
                    n \in DisplayNames, d \in {None} \cup {Some(b) : b \in B64Payloads}}

\* "not translation_action or 'res_id' not in translation_action"
ActionFailed(action) ==
    \/ action = None
    \/ "res_id" \notin DOMAIN action[1]

\* "not translation_data"
ReadFailed(data) == data = <<>>

\* the return value of _export_po_file_content
ExportValue(action, data) ==
    IF ActionFailed(action) \/ ReadFailed(data)
    THEN None
    ELSE Some(<<data[1].display_name, data[1].data>>)

\* the early return left out
ExportMissing_never(r) == FALSE

\* run: "if not export_result: return"
ExportMissing(r) == r = None

ExportPoFileContent ==
    /\ pc = "export"
    /\ \E created \in CreateResults, action \in ActionResults, data \in ReadResults :
         /\ language_export_id' = created
         /\ server_records' = server_records \cup {created[i] : i \in DOMAIN created}
         /\ translation_action' = action
         /\ IF ActionFailed(action)
            THEN /\ calls' = calls \o <<"create", "act_getfile">>
                 /\ UNCHANGED translation_data
                 /\ log' = Append(log, Msg("error", "Failed to trigger the file export action"))
            ELSE IF ReadFailed(data)
            THEN /\ calls' = calls \o <<"create", "act_getfile", "read">>
                 /\ translation_data' = data
                 /\ log' = Append(log, Msg("error", "Failed to read the exported translation data"))
            ELSE /\ calls' = calls \o <<"create", "act_getfile", "read">>
                 /\ translation_data' = data
                 /\ UNCHANGED log
         /\ export_result' = ExportValue(action, translation_data')
         /\ IF ExportMissing(export_result')
            THEN Ends("returned")
            ELSE pc' = "decode" /\ UNCHANGED result
    /\ UNCHANGED <<database, fs, addons_path, addon_path, module_id,
                   po_content, additional_addons_paths, context, messages,
                   ai_translation, output_path, completion, answer, fs_at_start>>

\* run: "filename, b64_content = export_result" and
\* po_content = base64.b64decode(b64_content).decode("utf-8"); unpacking
\* None, or an argument that cannot be decoded, raises out of run()
DecodeContent ==
    /\ pc = "decode"
    /\ calls' = IF export_result = None THEN calls ELSE Append(calls, "b64decode")
    /\ po_content' = IF export_result = None THEN None
                      ELSE B64DecodeUtf8(export_result[1][2])
    /\ IF po_content' = None
       THEN Ends("raised")
       ELSE pc' = "translate" /\ UNCHANGED result
    /\ UNCHANGED <<database, fs, addons_path, addon_path, module_id,
                   export_result, additional_addons_paths, context, messages,
                   ai_translation, output_path, language_export_id,
                   translation_action, translation_data, completion, answer,
                   fs_at_start, server_records, log>>

----------------------------------------------------------------------------
(* Stage 3: translate *)

\* what llm.completion may do: return None, "" or a text, or fail with an
\* exception ("raise")
LlmOutcomes == {[called |-> TRUE, raises |-> TRUE, value |-> None]}
                 \cup {[called |-> TRUE, raises |-> FALSE, value |-> c] : c \in Completions}

\* isinstance(self._database, RemoteDatabase) / LocalDatabase
IsRemote(db) == db = "RemoteDatabase"
IsLocal(db) == db = "LocalDatabase"
SupportedDatabase(db) == IsRemote(db) \/ IsLocal(db)

\* process.additional_addons_paths after the two checks of the remote branch
AddonsPathsFor(db) ==
    IF IsRemote(db)
    THEN (IF addons_path THEN <<path>> ELSE <<>>)
            \o (IF addon_path THEN <<Parent(path)>> ELSE <<>>)
    ELSE <<>>

\* "if context is not None:"
ContextGiven_notNone(ctx) == ctx.kind = "dict"

\* "if context:"
ContextGiven(ctx) == ctx.kind = "dict" /\ ctx.items # {}

\* prompt_content: the PO text, then the serialized context if there is one
PromptContent(po, ctx) ==
    <<[part |-> "po", text |-> po]>>
        \o (IF ContextGiven(ctx)
            THEN <<[part |-> "context", text |-> JsonDumps(ctx)]>> ELSE <<>>)

\* the list handed to llm.completion
LlmMessages(po, ctx) ==
    <<[role |-> "system", content |-> <<[part |-> "instruction", text |-> lang]>>],
      [role |-> "user", content |-> PromptContent(po, ctx)]>>

\* "if ai_translation is None: raise ValueError"
CompletionEmpty_onlyNone(c) == c = None

\* "if not ai_translation: raise ValueError"
CompletionEmpty(c) == c = None \/ c = Some("")

\* run: "if ai_translation is None"
TranslationIsNone(t) == t = None

GetAiTranslation ==
    /\ pc = "translate"
    /\ IF ~SupportedDatabase(database)
       THEN /\ Ends("raised")
            /\ UNCHANGED <<additional_addons_paths, context, messages,
                           ai_translation, completion, calls, log>>
       ELSE \E ctx \in Contexts, outcome \in LlmOutcomes :
            /\ additional_addons_paths' = AddonsPathsFor(database)
            /\ context' = ctx
            /\ messages' = LlmMessages(po_content[1], ctx)
            /\ completion' = outcome
            /\ calls' = calls \o <<"update_worktrees", "gather_po_context", "completion">>
            /\ IF outcome.raises \/ CompletionEmpty(outcome.value)
               THEN /\ log' = Append(log, Msg("debug", "Calling LLM"))
                    /\ UNCHANGED ai_translation
                    /\ Ends("raised")
               ELSE /\ ai_translation' = outcome.value
                    /\ IF TranslationIsNone(ai_translation')
                       THEN /\ log' = log \o <<Msg("debug", "Calling LLM"),
                                                 Msg("info", "Translation completed"),
                                                 Msg("error", "AI translation failed")>>
                            /\ Ends("returned")
                       ELSE /\ log' = log \o <<Msg("debug", "Calling LLM"),
                                                 Msg("info", "Translation completed")>>
                            /\ pc' = "output"
                            /\ UNCHANGED result
    /\ UNCHANGED <<database, fs, addons_path, addon_path, module_id,
                   export_result, po_content, output_path, language_export_id,
                   translation_action, translation_data, answer, fs_at_start,
                   server_records>>

----------------------------------------------------------------------------
(* Stage 4: resolve output *)

\* "if not output_path.exists()"
PathMissing(f) == ~Exists(f, path)

\* module_path.exists() in place of module_path.is_dir()
ModuleFolderFound_exists(f) == addons_path /\ Exists(f, Join(path, module_name))

\* "OdoobinProcess.check_addons_path(output_path) and module_path.is_dir()"
ModuleFolderFound(f) == addons_path /\ IsDir(f, Join(path, module_name))

\* l10n_path = module_path / "i18n"
L10nPath == Join(Join(path, module_name), "i18n")

\* l10n_path.mkdir(exist_ok=True)
Mkdir(f, p) == IF Exists(f, p) THEN f ELSE [f EXCEPT ![p] = Dir]

\* whether console.confirm is reached
Prompts(f) == ~PathMissing(f) /\ ModuleFolderFound(f)

\* the "return None" after the cancellation message left out
OutputPathFor_fallsThrough(f, accepted) ==
    IF PathMissing(f) THEN None
    ELSE IF ModuleFolderFound(f) /\ accepted THEN Some(L10nPath)
    ELSE Some(path)

\* the return value of _get_output_path; accepted is the user's reply
OutputPathFor(f, accepted) ==
    IF PathMissing(f) THEN None
    ELSE IF ModuleFolderFound(f)
         THEN (IF accepted THEN Some(L10nPath) ELSE None)
         ELSE Some(path)

\* the mkdir done before the user is asked
FsAfterResolve_mkdirFirst(f, accepted) ==
    IF Prompts(f) THEN Mkdir(f, L10nPath) ELSE f

\* the filesystem _get_output_path leaves behind
FsAfterResolve(f, accepted) ==
    IF Prompts(f) /\ accepted THEN Mkdir(f, L10nPath) ELSE f

\* run: "if not output_path: return" (a Path object is never falsy)
OutputMissing(p) == p = None

GetOutputPath ==
    /\ pc = "output"
    /\ \E accepted \in BOOLEAN :
         /\ answer' = IF Prompts(fs) THEN (IF accepted THEN "yes" ELSE "no")
                      ELSE "not asked"
         /\ output_path' = OutputPathFor(fs, accepted)
         /\ fs' = FsAfterResolve(fs, accepted)
         /\ calls' = calls \o <<"exists">>
                           \o (IF Prompts(fs) THEN <<"confirm">> ELSE <<>>)
                           \o (IF Prompts(fs) /\ accepted THEN <<"mkdir">> ELSE <<>>)
         /\ log' = IF PathMissing(fs)
                   THEN Append(log, Msg("error", "The path does not exist"))
                   ELSE IF Prompts(fs) /\ ~accepted
                   THEN Append(log, Msg("info", "Operation cancelled by user"))
                   ELSE log
    /\ IF OutputMissing(output_path')
       THEN Ends("returned")
       ELSE pc' = "write" /\ UNCHANGED result
    /\ UNCHANGED <<database, addons_path, addon_path, module_id, export_result,
                   po_content, additional_addons_paths, context, messages,
                   ai_translation, language_export_id, translation_action,
                   translation_data, completion, fs_at_start, server_records>>

----------------------------------------------------------------------------
(* Stage 5: write *)

\* full_path = path / filename
FullPath(dir, filename) == Join(dir, filename)

\* open(full_path, "w") succeeds when the parent is a directory and
\* full_path is not one
CanOpenForWriting(f, p) == IsDir(f, Parent(p)) /\ ~IsDir(f, p)

\* a file that is already there is left as it is
WriteText_keepsExisting(f, p, content) ==
    IF Exists(f, p) THEN f ELSE [f EXCEPT ![p] = File(content)]

\* f.write(content): the file holds the content and nothing else
WriteText(f, p, content) == [f EXCEPT ![p] = File(content)]

WriteTranslationFile ==
    /\ pc = "write"
    /\ LET full_path == IF output_path = None THEN None
                        ELSE FullPath(output_path[1], export_result[1][1])
       IN IF full_path # None /\ CanOpenForWriting(fs, full_path)
          THEN /\ fs' = WriteText(fs, full_path, ai_translation[1])
               /\ calls' = Append(calls, "open_write")
               /\ log' = Append(log, Msg("info", "Translation file written"))
               /\ Ends("completed")
          ELSE /\ calls' = IF full_path = None THEN calls
                          ELSE Append(calls, "open_write")
               /\ Ends("raised")
               /\ UNCHANGED <<fs, log>>
    /\ UNCHANGED <<database, addons_path, addon_path, module_id, export_result,
                   po_content, additional_addons_paths, context, messages,
                   ai_translation, output_path, language_export_id,
                   translation_action, translation_data, completion, answer,
                   fs_at_start, server_records>>

\* run(): the calls in the order the method makes them
Next ==
    \/ GetModuleId
    \/ ExportPoFileContent
    \/ DecodeContent
    \/ GetAiTranslation
    \/ GetOutputPath
    \/ WriteTranslationFile

Spec == Init /\ [][Next]_vars

----------------------------------------------------------------------------
(* Observations on a run *)

Count(op) == Cardinality({i \in DOMAIN calls : calls[i] = op})
Did(op) == \E i \in DOMAIN calls : calls[i] = op

Finished == pc = "done"

\* the paths that hold a regular file now and did not hold that file before
FilesWritten == {p \in Paths : fs[p].kind = "file" /\ fs[p] # fs_at_start[p]}
\* the directories that did not exist before
DirsCreated == {p \in Paths : fs[p].kind = "dir" /\ fs_at_start[p].kind # "dir"}

\* the LLM returned, and what it returned is None or the empty string
EmptyCompletion ==
    completion.called /\ ~completion.raises /\ completion.value \in {<<>>, <<"">>}
\* the LLM returned a non-empty text
NonEmptyCompletion ==
    completion.called /\ ~completion.raises /\ completion.value \notin {<<>>, <<"">>}

----------------------------------------------------------------------------
(* C1: once the module search has returned no match, the run is over and   *)
(* the search is the only interaction it ever had: no export wizard record *)
(* is created, no act_getfile, no LLM call, no prompt, no file written.    *)
C1_NoMatchStopsRun ==
    (Did("search") /\ module_id = <<>>) =>
        /\ Finished
        /\ calls = <<"search">>
        /\ server_records = {}
        /\ ~completion.called
        /\ answer = "not asked"
        /\ fs = fs_at_start

C1_Witness == Finished /\ Did("search") /\ module_id = <<>> /\ result = "returned"

(* C2: when llm.completion returns None or "", the run has ended by an     *)
(* exception and the output path was never resolved: no existence check,   *)
(* no prompt, no mkdir, no write, the filesystem is as it was.             *)
C2_EmptyCompletionRaises ==
    EmptyCompletion =>
        /\ Finished /\ result = "raised"
        /\ ~Did("exists") /\ ~Did("confirm") /\ ~Did("mkdir") /\ ~Did("open_write")
        /\ answer = "not asked"
        /\ fs = fs_at_start

C2_Witness == Finished /\ EmptyCompletion /\ completion.value = <<"">>

(* C3: when the user declines the prompt, the run is over and nothing was  *)
(* written: no file, and no i18n directory made by this run.               *)
C3_DeclineWritesNothing ==
    answer = "no" =>
        /\ Finished /\ result = "returned"
        /\ ~Did("mkdir") /\ ~Did("open_write")
        /\ fs = fs_at_start

C3_Witness ==
    /\ Finished /\ answer = "no"
    /\ fs_at_start[<<"addons", "sale">>].kind = "dir"
    /\ fs_at_start[<<"addons", "sale", "i18n">>].kind = "absent"

AbortMessages ==
    {"Module not found", "Failed to trigger the file export action",
     "Failed to read the exported translation data", "AI translation failed",
     "The path does not exist", "Operation cancelled by user"}

(* C5: every run that ended without writing the output file has logged a   *)
(* message saying why it gave up.                                          *)
C5_EveryAbortLogged ==
    (Finished /\ result # "completed") =>
        \E i \in DOMAIN log : log[i].msg \in AbortMessages

\* the export step has run and one of its intermediate results is missing:
\* the created job, the action or its res_id, the record read back or its
\* base64 data
IntermediateMissing ==
    /\ Did("create")
    /\ \/ language_export_id = <<>>
       \/ translation_action = <<>>
       \/ "res_id" \notin DOMAIN translation_action[1]
       \/ Did("read") /\ translation_data = <<>>
       \/ Did("read") /\ translation_data # <<>> /\ translation_data[1].data = <<>>

(* C6: when an intermediate result of the export step is missing, the      *)
(* export step reports failure (returns None), the LLM is never called, no *)
(* file is written and no export operation is invoked twice.               *)
C6_MissingIntermediateFailsExport ==
    IntermediateMissing =>
        /\ export_result = <<>>
        /\ ~completion.called
        /\ FilesWritten = {}
        /\ Count("create") <= 1 /\ Count("act_getfile") <= 1 /\ Count("read") <= 1

StageOf(op) ==
    CASE op = "search" -> 1
      [] op \in {"create", "act_getfile", "read"} -> 2
      [] op \in {"b64decode", "update_worktrees", "gather_po_context", "completion"} -> 3
      [] op \in {"exists", "confirm", "mkdir"} -> 4
      [] op = "open_write" -> 5

(* C8: the interactions of a run occur in stage order, none of them twice; *)
(* a stage is entered only when the stages before it have succeeded; the   *)
(* path is checked and the user prompted only after the LLM returned a     *)
(* non-empty translation.                                                  *)
C8_StagesInOrder ==
    /\ \A i, j \in DOMAIN calls :
          i < j => StageOf(calls[i]) <= StageOf(calls[j]) /\ calls[i] # calls[j]
    /\ (pc = "export" \/ Did("create")) => (Did("search") /\ module_id # <<>>)
    /\ (pc \in {"decode", "translate"} \/ Did("b64decode") \/ Did("completion")) =>
          (Did("read") /\ export_result # <<>>)
    /\ (pc = "output" \/ Did("exists") \/ Did("confirm")) => NonEmptyCompletion
    /\ (pc = "write" \/ Did("open_write")) => (Did("exists") /\ output_path # <<>>)

C8_Witness ==
    /\ Finished /\ result = "completed"
    /\ calls = <<"search", "create", "act_getfile", "read", "b64decode",
                 "update_worktrees", "gather_po_context", "completion",
                 "exists", "confirm", "mkdir", "open_write">>

(* C9: the output resolver fails without prompting when the path does not  *)
(* exist; it prompts exactly when the path is an addons directory holding  *)
(* a directory named after the module; otherwise it returns the requested  *)
(* path, without prompting and without creating a directory.               *)
C9_OutputResolver ==
    Did("exists") =>
        LET there == fs_at_start[<<"addons">>].kind # "absent"
            holds_module == addons_path /\ fs_at_start[<<"addons", "sale">>].kind = "dir"
        IN /\ ~there => (output_path = <<>> /\ ~Did("confirm") /\ result = "returned")
           /\ Did("confirm") <=> holds_module
           /\ (answer # "not asked") <=> holds_module
           /\ (there /\ ~holds_module) =>
                 /\ output_path = << <<"addons">> >>
                 /\ ~Did("mkdir")
                 /\ DirsCreated = {}

\* an addons directory where the module's name is taken by a regular file
C9_Witness ==
    /\ Did("exists") /\ addons_path
    /\ fs_at_start[<<"addons", "sale">>].kind = "file"
    /\ output_path = << <<"addons">> >>

\* the translation requester has been called and has returned or raised
Requested == po_content # <<>> /\ pc # "translate"

\* one call, two messages, system then user; the user message starts with
\* the decoded PO text and carries json.dumps(context) exactly when the
\* context is a non-empty dict
OneCallTwoMessages ==
    /\ Count("completion") = 1
    /\ Len(messages) = 2
    /\ messages[1].role = "system"
    /\ messages[2].role = "user"
    /\ messages[2].content[1] = [part |-> "po", text |-> po_content[1]]
    /\ LET blob == [part |-> "context", text |-> [json |-> context.items]]
           carried == \E k \in DOMAIN messages[2].content : messages[2].content[k].part = "context"
       IN /\ carried <=> (context.kind = "dict" /\ context.items # {})
          /\ carried => messages[2].content = <<messages[2].content[1], blob>>
          /\ ~carried => Len(messages[2].content) = 1

(* C10 as stated: whenever the translation requester has run, the LLM was  *)
(* called exactly once with a system and a user message, the user message  *)
(* carrying the PO text and, iff the context is non-empty, the context.    *)
C10_AlwaysOneCall == Requested => OneCallTwoMessages

(* C10 amended: the same when the database is a LocalDatabase or a         *)
(* RemoteDatabase; for any other database type the requester raises and    *)
(* the LLM is not called at all.                                           *)
C10_OneCallWhenSupported ==
    Requested =>
        IF database \in {"LocalDatabase", "RemoteDatabase"}
        THEN OneCallTwoMessages
        ELSE result = "raised" /\ Count("completion") = 0 /\ messages = <<>>

\* no context was gathered, the LLM was called and the file was written
C10_Witness ==
    /\ Finished /\ result = "completed"
    /\ context.kind = "None"
    /\ Count("completion") = 1
    /\ FilesWritten # {}

====

